---- MODULE Spec2Model ----
(***************************************************************************)
(* Model of the go6 object-stream reader (debug/go6/reader.go) and of the  *)
(* dead-code analysis of a parsed package (doPackage and its two walkers). *)
(*                                                                         *)
(* Representation notes.                                                   *)
(*  - A byte is a number in 0..255; a Go string / []byte is a sequence of  *)
(*    bytes; "" is << >>.                                                  *)
(*  - uint32 / uint64 / int64 words are kept as their little-endian byte   *)
(*    tuples (4 or 8 bytes, two's complement), because the model checker's *)
(*    integers are 32-bit signed.  IntOfU32 converts a word to a number.   *)
(*  - An error value is a record with a field kind; Nil is the nil error.  *)
(***************************************************************************)
EXTENDS Integers, Sequences, FiniteSets, TLC

VARIABLES
    stream,     \* the bytes behind r.rd (the whole input, fixed)
    pos,        \* number of bytes of stream already consumed through r.rd
    syms,       \* r.syms
    fnamebuf,   \* r.fnamebuf
    fname,      \* r.fname
    fset,       \* r.fset (goobj.FileSet): the frame stack
    imports,    \* r.imports
    input,      \* the records the stream was encoded from
    hist,       \* one entry per completed call, oldest first
    pkg,        \* doPackage's pkg: the package name and its top-level declarations
    pc,         \* where doPackage stands
    walked,     \* number of top-level declarations ast.Walk has been through
    decl,       \* p.decl: name -> index of the declaration kept for it
    used,       \* p.used: the names mapped to true
    funcSelfReferential,    \* p.funcSelfReferential: the names mapped to true
    funcUsedOutsideBody,    \* p.funcUsedOutsideBody: the names mapped to true
    reports     \* the reports printed

reader == <<stream, pos, syms, fnamebuf, fname, fset, imports, input, hist>>

analysis ==
    <<pkg, pc, walked, decl, used, funcSelfReferential, funcUsedOutsideBody,
      reports>>

vars == <<reader, analysis>>

(***************************************************************************)
(* Bounds of the model.                                                    *)
(***************************************************************************)
MaxRecs == 3
MaxCalls == MaxRecs + 1

(***************************************************************************)
(* Constants of package go6 (the 6.out.h tables).                          *)
(***************************************************************************)
AXXX == 0
AHISTORY == 56
ANAME == 97
ASIGNAME == 258
ALAST == 770
AADDL == 9

D_NONE == 111
D_EXTERN == 113
D_STATIC == 114
D_FCONST == 118
D_SCONST == 119
D_FILE == 121

T_TYPE == 1
T_INDEX == 2
T_OFFSET == 4
T_FCONST == 8
T_SYM == 16
T_SCONST == 32
T_64 == 64
T_GOTYPE == 128

NSNAME == 8

Handles == 0..255

(***************************************************************************)
(* Errors.                                                                 *)
(***************************************************************************)
Nil == [kind |-> "nil"]
EOF == [kind |-> "EOF"]
ErrUnexpectedEOF == [kind |-> "ErrUnexpectedEOF"]
errOpOutOfRange(op) == [kind |-> "errOpOutOfRange", op |-> op]
errIO(when, err) == [kind |-> "errIO", When |-> when, Err |-> err]

(***************************************************************************)
(* Words.                                                                  *)
(***************************************************************************)
Zero32 == <<0, 0, 0, 0>>
Zero64 == <<0, 0, 0, 0, 0, 0, 0, 0>>
MinusOne64 == <<255, 255, 255, 255, 255, 255, 255, 255>>

\* binary.LittleEndian.Uint16
LittleEndianUint16(b) == b[1] + 256 * b[2]

\* int(line) for a uint32 word (the inputs of the model keep it below 2^31)
IntOfU32(w) == w[1] + 256 * w[2] + 65536 * w[3] + 16777216 * w[4]

\* int64(int32(o32)): sign extension of a 32-bit word to 64 bits
SignExtend32(w) ==
    w \o (IF w[4] >= 128 THEN <<255, 255, 255, 255>> ELSE <<0, 0, 0, 0>>)

\* tag&f != 0, for f a single bit
HasFlag(tag, f) == (tag \div f) % 2 = 1

(***************************************************************************)
(* The stream primitives: each takes the position p it starts from and     *)
(* returns the value, the error and the position afterwards.               *)
(***************************************************************************)
\* bufio.Reader.ReadByte
ReadByte(p) ==
    IF p < Len(stream)
    THEN [v |-> stream[p + 1], err |-> Nil, pos |-> p + 1]
    ELSE [v |-> 0, err |-> EOF, pos |-> p]

\* io.ReadFull into a zeroed buffer of n bytes
ReadFull(p, n) ==
    LET avail == Len(stream) - p
        got == IF avail >= n THEN n ELSE avail
    IN  [v |-> [i \in 1..n |-> IF i <= got THEN stream[p + i] ELSE 0],
         err |-> IF got = n THEN Nil
                 ELSE IF got = 0 THEN EOF ELSE ErrUnexpectedEOF,
         pos |-> p + got]

\* the error of the read dropped
read2_NoError(p) ==
    LET r == ReadFull(p, 2)
    IN  [v |-> LittleEndianUint16(r.v), err |-> Nil, pos |-> r.pos]

read2(p) ==
    LET r == ReadFull(p, 2)
    IN  [v |-> LittleEndianUint16(r.v), err |-> r.err, pos |-> r.pos]

read4(p) == ReadFull(p, 4)

read8(p) == ReadFull(p, 8)

\* bufio.Reader.ReadString(0): up to and including the first NUL
ReadString(p) ==
    LET nuls == {i \in (p + 1)..Len(stream) : stream[i] = 0}
    IN  IF nuls # {}
        THEN LET i == CHOOSE k \in nuls : \A j \in nuls : k <= j
             IN  [v |-> SubSeq(stream, p + 1, i), err |-> Nil, pos |-> i]
        ELSE [v |-> SubSeq(stream, p + 1, Len(stream)), err |-> EOF,
              pos |-> Len(stream)]

\* the error of the read of the handle dropped
ReadSym_NoError(p) ==
    LET b == ReadByte(p)
    IN  [v |-> syms[b.v], err |-> Nil, pos |-> b.pos]

\* Reader.ReadSym
ReadSym(p) ==
    LET b == ReadByte(p)
    IN  [v |-> syms[b.v], err |-> b.err, pos |-> b.pos]

(***************************************************************************)
(* Operands.                                                               *)
(***************************************************************************)
ZeroStr == [i \in 1..NSNAME |-> 0]

\* the zero value of Addr
ZeroAddr ==
    [Type |-> 0, Index |-> 0, Scale |-> 0, Offset |-> Zero64, Sym |-> << >>,
     GoType |-> << >>, FloatIEEE |-> Zero64, StringVal |-> ZeroStr]

\* Addr{Type: D_NONE, Index: D_NONE, Scale: 0}
NewAddr == [ZeroAddr EXCEPT !.Type = D_NONE, !.Index = D_NONE]

\* a read of a field from position p: its error and the bytes it obtained
Rd(field, p, r) == [field |-> field, err |-> r.err, n |-> r.pos - p]

\* The state of one ReadAddr call: the flag byte, the operand so far, the
\* variable err, the position, and every read performed so far with its error.
AddrStart(p, t) ==
    [tag |-> t.v, a |-> NewAddr, err |-> t.err, pos |-> t.pos,
     reads |-> <<Rd("flag", p, t)>>]

\* one read r of a field: its error overwrites err, whatever err was
PutField(s, field, r, a) ==
    [s EXCEPT !.a = a, !.err = r.err, !.pos = r.pos,
              !.reads = Append(@, Rd(field, s.pos, r))]

\* line 151
AddrFlag(p) == AddrStart(p, ReadByte(p))

\* lines 154-159
PutScale(s, index, scale) ==
    PutField(PutField(s, "index", index, s.a), "scale", scale,
             [s.a EXCEPT !.Index = index.v, !.Scale = scale.v])

\* the index byte alone, the scale byte left in the stream
PutIndex_NoScale(s, index) ==
    PutField(s, "index", index, [s.a EXCEPT !.Index = index.v])

PutIndex(s, index) == PutScale(s, index, ReadByte(index.pos))

AddrIndex(s) ==
    IF HasFlag(s.tag, T_INDEX) THEN PutIndex(s, ReadByte(s.pos)) ELSE s

\* lines 160-168
PutOffset64(s, o64) == PutField(s, "offset", o64, [s.a EXCEPT !.Offset = o64.v])

\* int64(o32), without the conversion to int32
PutOffset32_ZeroExtend(s, o32) ==
    PutField(s, "offset", o32, [s.a EXCEPT !.Offset = o32.v \o Zero32])

PutOffset32(s, o32) ==
    PutField(s, "offset", o32, [s.a EXCEPT !.Offset = SignExtend32(o32.v)])

AddrOffset(s) ==
    IF HasFlag(s.tag, T_OFFSET)
    THEN IF HasFlag(s.tag, T_64) THEN PutOffset64(s, read8(s.pos))
         ELSE PutOffset32(s, read4(s.pos))
    ELSE s

\* lines 169-171
PutSym(s, sym) == PutField(s, "symbol", sym, [s.a EXCEPT !.Sym = sym.v])

AddrSym(s) == IF HasFlag(s.tag, T_SYM) THEN PutSym(s, ReadSym(s.pos)) ELSE s

\* lines 176-183
PutFloat(s, f) ==
    PutField(s, "float constant", f,
             [s.a EXCEPT !.Type = D_FCONST, !.FloatIEEE = f.v])

PutString(s, c) ==
    PutField(s, "string constant", c,
             [s.a EXCEPT !.Type = D_SCONST, !.StringVal = c.v])

AddrConst(s) ==
    IF HasFlag(s.tag, T_FCONST) THEN PutFloat(s, read8(s.pos))
    ELSE IF HasFlag(s.tag, T_SCONST) THEN PutString(s, ReadFull(s.pos, NSNAME))
    ELSE s

\* lines 185-189
PutType(s, typ) == PutField(s, "type", typ, [s.a EXCEPT !.Type = typ.v])

AddrType(s) == IF HasFlag(s.tag, T_TYPE) THEN PutType(s, ReadByte(s.pos)) ELSE s

\* lines 190-192
PutGoType(s, g) ==
    PutField(s, "go-type symbol", g, [s.a EXCEPT !.GoType = g.v])

AddrGoType(s) ==
    IF HasFlag(s.tag, T_GOTYPE) THEN PutGoType(s, ReadSym(s.pos)) ELSE s

\* the type byte read before the constant
AddrRest_TypeFirst(s) ==
    IF s.err # Nil THEN s ELSE AddrGoType(AddrConst(AddrType(s)))

\* lines 172-194: the one check of err, then the remaining fields
AddrRest(s) == IF s.err # Nil THEN s ELSE AddrGoType(AddrType(AddrConst(s)))

\* Reader.ReadAddr
ReadAddr(p) == AddrRest(AddrSym(AddrOffset(AddrIndex(AddrFlag(p)))))

(***************************************************************************)
(* filepath.Join (line 125): the elements from the first non-empty one on  *)
(* are joined with the separator and the result is cleaned lexically.      *)
(***************************************************************************)
Slash == 47
Dot == <<46>>
DotDot == <<46, 46>>

RECURSIVE SplitSlash(_)
SplitSlash(s) ==
    LET at == {i \in 1..Len(s) : s[i] = Slash}
    IN  IF at = {} THEN <<s>>
        ELSE LET i == CHOOSE k \in at : \A j \in at : k <= j
             IN  <<SubSeq(s, 1, i - 1)>> \o SplitSlash(SubSeq(s, i + 1, Len(s)))

RECURSIVE JoinSlash(_)
JoinSlash(elem) ==
    IF elem = << >> THEN << >>
    ELSE IF Len(elem) = 1 THEN elem[1]
    ELSE elem[1] \o <<Slash>> \o JoinSlash(Tail(elem))

RECURSIVE CleanComps(_, _, _)
CleanComps(comps, rooted, out) ==
    IF comps = << >> THEN out
    ELSE LET c == Head(comps)
             rest == Tail(comps)
         IN  IF c = << >> \/ c = Dot THEN CleanComps(rest, rooted, out)
             ELSE IF c = DotDot
             THEN IF out # << >> /\ out[Len(out)] # DotDot
                  THEN CleanComps(rest, rooted, SubSeq(out, 1, Len(out) - 1))
                  ELSE IF rooted THEN CleanComps(rest, rooted, out)
                  ELSE CleanComps(rest, rooted, Append(out, c))
             ELSE CleanComps(rest, rooted, Append(out, c))

\* filepath.Clean
Clean(path) ==
    IF path = << >> THEN Dot
    ELSE LET rooted == path[1] = Slash
             body == JoinSlash(CleanComps(SplitSlash(path), rooted, << >>))
             res == (IF rooted THEN <<Slash>> ELSE << >>) \o body
         IN  IF res = << >> THEN Dot ELSE res

\* filepath.Join
Join(elem) ==
    LET ne == {i \in 1..Len(elem) : elem[i] # << >>}
    IN  IF ne = {} THEN << >>
        ELSE LET i == CHOOSE k \in ne : \A j \in ne : k <= j
             IN  Clean(JoinSlash(SubSeq(elem, i, Len(elem))))

(***************************************************************************)
(* goobj.FileSet: a stack of frames (file, first virtual line).            *)
(***************************************************************************)
NoPos == [file |-> << >>, line |-> 0]

FileSetEnter(fs, name, line) == Append(fs, [file |-> name, start |-> line])

FileSetExit(fs, line) ==
    IF fs = << >> THEN fs ELSE SubSeq(fs, 1, Len(fs) - 1)

FileSetPosition(fs, line) ==
    LET in == {i \in 1..Len(fs) : fs[i].start <= line}
    IN  IF in = {} THEN NoPos
        ELSE LET i == CHOOSE k \in in : \A j \in in : j <= k
             IN  [file |-> fs[i].file, line |-> line - fs[i].start]

(***************************************************************************)
(* Records.                                                                *)
(***************************************************************************)
\* the zero value of Prog
ZeroProg ==
    [Op |-> 0, Line |-> 0, From |-> ZeroAddr, To |-> ZeroAddr, Name |-> << >>,
     Pos |-> NoPos]

\* What one call did: the bytes [start, end) it consumed, the opcode it read,
\* what it returned (p, err) or that it panicked, the errors of the reads of
\* line, from and to, the history operation it applied, the path it
\* assembled for it and whether it asked the file set for a position.
Entry(start, end, op) ==
    [start |-> start, end |-> end, op |-> op, p |-> ZeroProg, err |-> Nil,
     panicked |-> FALSE, lineErr |-> Nil, fromErr |-> Nil, toErr |-> Nil,
     fromReads |-> << >>, toReads |-> << >>,
     fsetOp |-> "none", path |-> << >>, resolved |-> FALSE]

Last == hist[Len(hist)]

\* a call can be made: the process has not died, and the log has room
CanCall ==
    /\ Len(hist) < MaxCalls
    /\ hist # << >> => ~Last.panicked

Return(e) ==
    /\ hist' = Append(hist, e)
    /\ pos' = e.end

\* the sentinels themselves taken for opcodes
OpOutOfRange_Strict(op) == op < AXXX \/ op > ALAST

\* op <= AXXX || op >= ALAST (line 70)
OpOutOfRange(op) == op <= AXXX \/ op >= ALAST

(***************************************************************************)
(* ReadProg, lines 66-69: the opcode cannot be read.                       *)
(***************************************************************************)
OpFails(o) ==
    /\ o.err # Nil
    /\ Return([Entry(pos, o.pos, o.v) EXCEPT !.err = o.err])

ReadProgEOF ==
    /\ CanCall
    /\ OpFails(read2(pos))
    /\ UNCHANGED <<stream, input, syms, fnamebuf, fname, fset, imports, analysis>>

(***************************************************************************)
(* ReadProg, lines 70-72: the opcode is out of range.                      *)
(***************************************************************************)
OpRejected(o) ==
    /\ o.err = Nil
    /\ OpOutOfRange(o.v)
    /\ Return([Entry(pos, o.pos, o.v) EXCEPT !.err = errOpOutOfRange(o.v)])

ReadProgOutOfRange ==
    /\ CanCall
    /\ OpRejected(read2(pos))
    /\ UNCHANGED <<stream, input, syms, fnamebuf, fname, fset, imports, analysis>>

(***************************************************************************)
(* ReadProg, lines 74-105: a name declaration (ANAME, ASIGNAME).           *)
(***************************************************************************)
\* lines 85-92
NameError(typ, sym, bname) ==
    IF typ.err # Nil THEN errIO("symbol type", bname.err)
    ELSE IF sym.err # Nil THEN errIO("symbol id", bname.err)
    ELSE IF bname.err # Nil THEN errIO("symbol value", bname.err)
    ELSE Nil

\* string(bname[:len(bname)-1]) (line 93)
NameOf(bname) == SubSeq(bname, 1, Len(bname) - 1)

\* a slot kept by its first writer
Register_First(table, sym, name) ==
    IF table[sym] = << >> THEN [table EXCEPT ![sym] = name] ELSE table

\* r.syms[sym] = name (line 95)
Register(table, sym, name) == [table EXCEPT ![sym] = name]

\* name[1:] of line 101 panics on the empty name
FilePanics(typ, name) == typ = D_FILE /\ Len(name) = 0

\* the whole name pushed
PushFragment_Whole(buf, typ, name) ==
    IF typ = D_FILE /\ Len(name) > 0 THEN Append(buf, name) ELSE buf

\* lines 96-102
PushFragment(buf, typ, name) ==
    IF typ = D_FILE /\ Len(name) > 0 THEN Append(buf, Tail(name)) ELSE buf

\* lines 93-104
NameDeclared(e, typ, sym, name) ==
    /\ syms' = Register(syms, sym, name)
    /\ fnamebuf' = PushFragment(fnamebuf, typ, name)
    /\ IF FilePanics(typ, name)
       THEN Return([e EXCEPT !.panicked = TRUE])
       ELSE Return([e EXCEPT !.p = [ZeroProg EXCEPT !.Op = e.op,
                                                    !.Name = name]])

NameChecked(e, typ, sym, bname, err) ==
    IF err # Nil
    THEN /\ Return([e EXCEPT !.err = err])
         /\ UNCHANGED <<syms, fnamebuf>>
    ELSE NameDeclared(e, typ.v, sym.v, NameOf(bname.v))

\* line 84
NameValue(o, typ, sym, bname) ==
    NameChecked(Entry(pos, bname.pos, o.v), typ, sym, bname,
                NameError(typ, sym, bname))

\* line 83
NameSym(o, typ, sym) == NameValue(o, typ, sym, ReadString(sym.pos))

\* line 82
NameTyp(o, typ) == NameSym(o, typ, ReadByte(typ.pos))

\* lines 75-81
NameSig(o, sig) ==
    IF sig.err # Nil
    THEN /\ Return([Entry(pos, sig.pos, o.v) EXCEPT
                       !.err = errIO("SIGNAME op", sig.err)])
         /\ UNCHANGED <<syms, fnamebuf>>
    ELSE NameTyp(o, ReadByte(sig.pos))

NameRecord(o) ==
    /\ o.err = Nil
    /\ ~OpOutOfRange(o.v)
    /\ o.v \in {ANAME, ASIGNAME}
    /\ NameSig(o, IF o.v = ASIGNAME THEN read4(o.pos)
                  ELSE [v |-> Zero32, err |-> Nil, pos |-> o.pos])

ReadProgName ==
    /\ CanCall
    /\ NameRecord(read2(pos))
    /\ UNCHANGED <<stream, input, fname, fset, imports, analysis>>

(***************************************************************************)
(* ReadProg, lines 107-147: an instruction or a history record.            *)
(***************************************************************************)
\* lines 111-118: every case passes err, the error of the read of line
CommonError(line, from, to) ==
    IF line.err # Nil THEN errIO("line number", line.err)
    ELSE IF from.err # Nil THEN errIO("from address", line.err)
    ELSE IF to.err # Nil THEN errIO("to address", line.err)
    ELSE Nil

\* lines 119-121
MakeProg(op, line, from, to) ==
    [ZeroProg EXCEPT !.Op = op, !.Line = IntOfU32(line),
                     !.From = from, !.To = to]

\* lines 108-118 and what the log keeps of them
CommonAll(o, line, from, to) ==
    [err |-> CommonError(line, from, to),
     line |-> line.v, from |-> from.a, to |-> to.a,
     e |-> [Entry(pos, to.pos, o.v) EXCEPT
               !.lineErr = line.err, !.fromErr = from.err,
               !.toErr = to.err, !.fromReads = from.reads,
               !.toReads = to.reads]]

CommonTo(o, line, from) == CommonAll(o, line, from, ReadAddr(from.pos))

CommonFrom(o, line) == CommonTo(o, line, ReadAddr(line.pos))

Common(o) == CommonFrom(o, read4(o.pos))

\* p.To.Offset == -1 (line 127)
IsImport(p) == p.To.Offset = MinusOne64

\* a fresh map at every import
SetImport_Only(m, line, path) == [l \in {line} |-> path]

\* r.imports[int(line)] = fname (line 129)
SetImport(m, line, path) ==
    [l \in DOMAIN m \cup {line} |-> IF l = line THEN path ELSE m[l]]

\* lines 135-139: the test of r.fname
HistoryOp(cur) == IF cur # << >> THEN "enter" ELSE "exit"

\* lines 135-139
FileSetUpdate(fs, cur, line) ==
    IF HistoryOp(cur) = "enter" THEN FileSetEnter(fs, cur, line)
    ELSE FileSetExit(fs, line)

\* the fragments kept after the join
Drain_Keep(buf) == buf

\* line 126
Drain(buf) == << >>

\* lines 123-139
HistoryApply(e, p, path) ==
    /\ fnamebuf' = Drain(fnamebuf)
    /\ IF IsImport(p)
       THEN /\ imports' = SetImport(imports, p.Line, path)
            /\ fset' = fset
            /\ Return([e EXCEPT !.p = p, !.path = path, !.fsetOp = "import"])
       ELSE /\ imports' = imports
            /\ fset' = FileSetUpdate(fset, fname, p.Line)
            /\ Return([e EXCEPT !.p = p, !.path = path,
                                !.fsetOp = HistoryOp(fname)])

\* the fragments drained before the errors are looked at
HistoryDecoded_DrainFirst(c) ==
    IF c.err # Nil
    THEN /\ Return([c.e EXCEPT !.err = c.err])
         /\ fnamebuf' = Drain(fnamebuf)
         /\ UNCHANGED <<fset, imports>>
    ELSE HistoryApply(c.e, MakeProg(c.e.op, c.line, c.from, c.to),
                      Join(fnamebuf))

HistoryDecoded(c) ==
    IF c.err # Nil
    THEN /\ Return([c.e EXCEPT !.err = c.err])
         /\ UNCHANGED <<fnamebuf, fset, imports>>
    ELSE HistoryApply(c.e, MakeProg(c.e.op, c.line, c.from, c.to),
                      Join(fnamebuf))

HistoryRecord(o) ==
    /\ o.err = Nil
    /\ ~OpOutOfRange(o.v)
    /\ o.v = AHISTORY
    /\ HistoryDecoded(Common(o))

ReadProgHistory ==
    /\ CanCall
    /\ HistoryRecord(read2(pos))
    /\ UNCHANGED <<stream, input, syms, fname, analysis>>

\* line 141 with the test dropped: every record is resolved
Resolves_Always(line) == TRUE

\* line 141
Resolves(line) == line # 0

\* lines 140-143
Resolve(fs, line) == IF Resolves(line) THEN FileSetPosition(fs, line) ELSE NoPos

InstrApply(e, p) ==
    Return([e EXCEPT !.p = [p EXCEPT !.Pos = Resolve(fset, p.Line)],
                     !.resolved = Resolves(p.Line)])

InstrDecoded(c) ==
    IF c.err # Nil
    THEN Return([c.e EXCEPT !.err = c.err])
    ELSE InstrApply(c.e, MakeProg(c.e.op, c.line, c.from, c.to))

InstrRecord(o) ==
    /\ o.err = Nil
    /\ ~OpOutOfRange(o.v)
    /\ o.v \notin {ANAME, ASIGNAME, AHISTORY}
    /\ InstrDecoded(Common(o))

ReadProgInstr ==
    /\ CanCall
    /\ InstrRecord(read2(pos))
    /\ UNCHANGED <<stream, input, syms, fnamebuf, fname, fset, imports, analysis>>

\* Reader.ReadProg
ReadProg ==
    \/ ReadProgEOF
    \/ ReadProgOutOfRange
    \/ ReadProgName
    \/ ReadProgHistory
    \/ ReadProgInstr

(***************************************************************************)
(* A direct call of the exported Reader.ReadAddr.                          *)
(***************************************************************************)
AddrReturned(r) ==
    Return([Entry(pos, r.pos, r.tag) EXCEPT
               !.err = r.err, !.p = [ZeroProg EXCEPT !.From = r.a],
               !.fromErr = r.err, !.fromReads = r.reads])

ReadAddrCall ==
    /\ CanCall
    /\ AddrReturned(ReadAddr(pos))
    /\ UNCHANGED <<stream, input, syms, fnamebuf, fname, fset, imports, analysis>>

(***************************************************************************)
(* The streams the reader is run on: encodings of a few records, in the    *)
(* layout ReadProg and ReadAddr read, cut short anywhere in the last one.  *)
(***************************************************************************)
U16(n) == <<n % 256, n \div 256>>
U32(n) == <<n % 256, (n \div 256) % 256, (n \div 65536) % 256, n \div 16777216>>

\* an operand: the flag byte and the value of each field it may enable
Operand(tag, off, sym, gotype) ==
    [tag |-> tag, index |-> 3, scale |-> 2, off |-> off, sym |-> sym,
     fconst |-> <<1, 2, 3, 4, 5, 6, 7, 8>>,
     sconst |-> <<97, 98, 99, 100, 101, 102, 103, 104>>,
     typ |-> D_EXTERN, gotype |-> gotype]

\* the width of the offset field (lines 161-167)
OffsetField(a) ==
    IF HasFlag(a.tag, T_64) THEN SignExtend32(a.off) ELSE a.off

EncodeAddr(a) ==
    <<a.tag>>
    \o (IF HasFlag(a.tag, T_INDEX) THEN <<a.index, a.scale>> ELSE << >>)
    \o (IF HasFlag(a.tag, T_OFFSET) THEN OffsetField(a) ELSE << >>)
    \o (IF HasFlag(a.tag, T_SYM) THEN <<a.sym>> ELSE << >>)
    \o (IF HasFlag(a.tag, T_FCONST) THEN a.fconst
        ELSE IF HasFlag(a.tag, T_SCONST) THEN a.sconst ELSE << >>)
    \o (IF HasFlag(a.tag, T_TYPE) THEN <<a.typ>> ELSE << >>)
    \o (IF HasFlag(a.tag, T_GOTYPE) THEN <<a.gotype>> ELSE << >>)

NoOperand == Operand(0, Zero32, 0, 0)

NameRec(op, typ, sym, name) ==
    [kind |-> "name", op |-> op, typ |-> typ, sym |-> sym, name |-> name,
     line |-> 0, from |-> NoOperand, to |-> NoOperand]

InstrRec(op, line, from, to) ==
    [kind |-> "instr", op |-> op, typ |-> 0, sym |-> 0, name |-> << >>,
     line |-> line, from |-> from, to |-> to]

RawRec(op) ==
    [kind |-> "raw", op |-> op, typ |-> 0, sym |-> 0, name |-> << >>,
     line |-> 0, from |-> NoOperand, to |-> NoOperand]

Encode(r) ==
    IF r.kind = "raw" THEN U16(r.op)
    ELSE IF r.kind = "name"
    THEN U16(r.op) \o (IF r.op = ASIGNAME THEN <<9, 9, 9, 9>> ELSE << >>)
         \o <<r.typ, r.sym>> \o r.name \o <<0>>
    ELSE U16(r.op) \o U32(r.line) \o EncodeAddr(r.from) \o EncodeAddr(r.to)

RECURSIVE EncodeAll(_)
EncodeAll(rs) ==
    IF rs = << >> THEN << >> ELSE Encode(Head(rs)) \o EncodeAll(Tail(rs))

\* the streams of rs: its encoding, less any number of bytes of its last record
Streams(rs) ==
    IF rs = << >> THEN {<< >>}
    ELSE LET full == EncodeAll(rs)
             n == Len(Encode(rs[Len(rs)]))
         IN  {SubSeq(full, 1, Len(full) - cut) : cut \in 0..(n - 1)}

\* names: "<a", "<b", "<..", "<", "", "x", "y"
NameFileA == <<60, 97>>
NameFileB == <<60, 98>>
NameFileUp == <<60, 46, 46>>
NameFileOnly == <<60>>
NameX == <<120>>
NameY == <<121>>

All32 == <<255, 255, 255, 255>>

\* records about symbols and instructions
Recs ==
    { NameRec(ANAME, D_EXTERN, 1, NameX),
      NameRec(ASIGNAME, D_STATIC, 1, NameY),
      NameRec(ANAME, D_FILE, 1, NameFileA),
      NameRec(ANAME, D_FILE, 2, << >>),
      InstrRec(AADDL, 6, Operand(T_SYM + T_GOTYPE, Zero32, 1, 2),
               Operand(T_OFFSET + T_64 + T_SYM, All32, 2, 0)),
      InstrRec(AHISTORY, 7, NoOperand, NoOperand),
      InstrRec(AADDL, 0, NoOperand, NoOperand),
      RawRec(AXXX),
      RawRec(ALAST) }

\* records about file names and history
HistRecs ==
    { NameRec(ANAME, D_FILE, 1, NameFileA),
      NameRec(ANAME, D_FILE, 2, NameFileB),
      NameRec(ANAME, D_FILE, 2, NameFileUp),
      NameRec(ANAME, D_FILE, 1, NameFileOnly),
      NameRec(ANAME, D_FILE, 1, << >>),
      InstrRec(AHISTORY, 5, NoOperand, Operand(T_OFFSET, All32, 0, 0)),
      InstrRec(AHISTORY, 8, NoOperand, Operand(T_OFFSET + T_64, All32, 0, 0)),
      InstrRec(AHISTORY, 7, NoOperand, NoOperand) }

Inputs(R) == UNION {[1..n -> R] : n \in 0..MaxRecs}

\* no package is being analysed
NoAnalysis ==
    /\ pkg = [name |-> << >>, decls |-> << >>]
    /\ pc = "idle"
    /\ walked = 0
    /\ decl = << >>
    /\ used = {}
    /\ funcSelfReferential = {}
    /\ funcUsedOutsideBody = {}
    /\ reports = << >>

\* NewReader
EmptySyms == [h \in Handles |-> << >>]

NewReader ==
    /\ pos = 0
    /\ syms = EmptySyms
    /\ fnamebuf = << >>
    /\ fname = << >>
    /\ fset = << >>
    /\ imports = << >>
    /\ hist = << >>

Init ==
    /\ input \in Inputs(Recs)
    /\ stream \in Streams(input)
    /\ NewReader
    /\ NoAnalysis

Next == ReadProg

Spec == Init /\ [][Next]_vars

\* On streams of name declarations and history records alone no opcode is
\* out of range and none is an instruction's.
InitHist ==
    /\ input \in Inputs(HistRecs)
    /\ stream \in Streams(input)
    /\ NewReader
    /\ NoAnalysis

NextHist ==
    \/ ReadProgEOF
    \/ ReadProgName
    \/ ReadProgHistory

SpecHist == InitHist /\ [][NextHist]_vars

(***************************************************************************)
(* ReadAddr called on its own: the reader has decoded two name             *)
(* declarations (handles 1 and 2) and stands before one operand, which is  *)
(* cut short anywhere.                                                     *)
(***************************************************************************)
Declared == <<NameRec(ANAME, D_EXTERN, 1, NameX), NameRec(ANAME, D_STATIC, 2, NameY)>>

Offsets == {All32, <<0, 0, 0, 128>>, <<1, 0, 0, 0>>}

Operands ==
    {Operand(tag, off, 1, 2) : tag \in {t \in 0..255 : HasFlag(t, T_OFFSET)},
                               off \in Offsets}
    \cup {Operand(tag, Zero32, 1, 2) : tag \in {t \in 0..255 : ~HasFlag(t, T_OFFSET)}}

OperandStreams(a) ==
    {EncodeAll(Declared) \o SubSeq(EncodeAddr(a), 1, n) :
        n \in 0..Len(EncodeAddr(a))}

InitAddr ==
    /\ input \in {<<a>> : a \in Operands}
    /\ stream \in OperandStreams(input[1])
    /\ pos = Len(EncodeAll(Declared))
    /\ syms = Register(Register(EmptySyms, 1, NameX), 2, NameY)
    /\ fnamebuf = << >>
    /\ fname = << >>
    /\ fset = << >>
    /\ imports = << >>
    /\ hist = << >>
    /\ NoAnalysis

NextAddr == ReadAddrCall

SpecAddr == InitAddr /\ [][NextAddr]_vars

(***************************************************************************)
(* ReadProg on one record with operands: after a file-marker declaration   *)
(* comes an instruction or a history record one of whose operands has any  *)
(* flag byte, cut short anywhere.                                          *)
(***************************************************************************)
ImportOperand == Operand(T_OFFSET, All32, 0, 0)

ProgRecs ==
    {InstrRec(op, 5, a, ImportOperand) : op \in {AADDL, AHISTORY}, a \in Operands}
    \cup {InstrRec(op, 5, NoOperand, a) : op \in {AADDL, AHISTORY}, a \in Operands}

InitProg ==
    /\ input \in {<<NameRec(ANAME, D_FILE, 1, NameFileA), r>> : r \in ProgRecs}
    /\ stream \in Streams(input)
    /\ NewReader
    /\ NoAnalysis

NextProg ==
    \/ ReadProgEOF
    \/ ReadProgName
    \/ ReadProgHistory
    \/ ReadProgInstr

SpecProg == InitProg /\ [][NextProg]_vars

(***************************************************************************)
(* The dead-code analysis (doPackage, Package.Visit, usedWalker.Visit).    *)
(*                                                                         *)
(* A parsed package is its name and the top-level declarations of its      *)
(* files in source order.  Of a declaration the analysis looks only at its *)
(* kind, its name, whether it has a receiver, and the identifiers that     *)
(* occur in it: idents are those of a function's signature or of a         *)
(* specification's values and type, body is the list of a function's       *)
(* statements, each either an identifier occurrence or a local var or type *)
(* declaration with the identifiers of its values and type.                *)
(***************************************************************************)
MaxDecls == 2

\* "init", "_", "main", "lib", "f", "g", "F", "v", "t"
NameInit == <<105, 110, 105, 116>>
NameBlank == <<95>>
NameMain == <<109, 97, 105, 110>>
NameLib == <<108, 105, 98>>
NameF == <<102>>
NameG == <<103>>
NameFib == <<70>>
NameV == <<118>>
NameT == <<116>>

\* ast.IsExported: the first character is an upper-case letter
IsExported(nm) == Len(nm) > 0 /\ nm[1] \in 65..90

\* the report kinds (lines 151-154)
unused == 0
onlySelfReferential == 1

Ident(nm) == [kind |-> "ident", idents |-> <<nm>>]
LocalVar(ids) == [kind |-> "var", idents |-> ids]
LocalType(ids) == [kind |-> "type", idents |-> ids]

FuncDecl(recv, nm, sig, body) ==
    [kind |-> "func", recv |-> recv, name |-> nm, idents |-> sig, body |-> body]

ValueSpec(nm, ids) ==
    [kind |-> "var", recv |-> FALSE, name |-> nm, idents |-> ids, body |-> << >>]

TypeSpec(nm, ids) ==
    [kind |-> "type", recv |-> FALSE, name |-> nm, idents |-> ids, body |-> << >>]

\* every identifier of a list of statements, in source order
RECURSIVE AllIdents(_)
AllIdents(body) ==
    IF body = << >> THEN << >> ELSE Head(body).idents \o AllIdents(Tail(body))

\* the identifiers of the local var and type declarations among them
RECURSIVE SpecIdents(_)
SpecIdents(body) ==
    IF body = << >> THEN << >>
    ELSE (IF Head(body).kind = "ident" THEN << >> ELSE Head(body).idents)
         \o SpecIdents(Tail(body))

\* usedWalker.Visit on an identifier (lines 206-218); w holds the three maps
\* and current is *p.currentFuncName
usedWalkerVisit(w, current, nm) ==
    [used |-> w.used \cup {nm},
     funcSelfReferential |->
        IF nm = current THEN w.funcSelfReferential \cup {nm}
        ELSE w.funcSelfReferential,
     funcUsedOutsideBody |->
        IF nm = current THEN w.funcUsedOutsideBody
        ELSE w.funcUsedOutsideBody \cup {nm}]

\* ast.Walk with a usedWalker over code whose identifiers are ids
RECURSIVE Walk(_, _, _)
Walk(w, current, ids) ==
    IF ids = << >> THEN w
    ELSE Walk(usedWalkerVisit(w, current, Head(ids)), current, Tail(ids))

\* Package.Visit on a function declaration and then, p being returned, on
\* the nodes below it (lines 186-195, 171-178, 196-197): signature and body
\* are walked with the function's name as current name, the name is reset,
\* and the var and type specifications of the body are walked once more
VisitFuncDecl(w, n) ==
    Walk(Walk(w, n.name, n.idents \o AllIdents(n.body)), << >>, SpecIdents(n.body))

\* lines 171-178 and 196-197 at the top level: the current name is ""
VisitSpec(w, n) == Walk(w, << >>, n.idents)

\* lines 83-102: what enters p.decl
Declares(d) == d.kind # "func" \/ ~d.recv

DeclaredAt(ds) == {i \in 1..Len(ds) : Declares(ds[i])}

\* p.decl after the loop of lines 82-105: a later declaration of a name
\* replaces an earlier one
DeclMap(ds) ==
    [nm \in {ds[i].name : i \in DeclaredAt(ds)} |->
        CHOOSE i \in DeclaredAt(ds) :
            /\ ds[i].name = nm
            /\ \A j \in DeclaredAt(ds) : ds[j].name = nm => j <= i]

\* lines 107-119
DefaultUsed(nm, m) ==
    {NameInit, NameBlank}
    \cup (IF nm # NameMain THEN {x \in DOMAIN m : IsExported(x)} ELSE {NameMain})

\* lines 127-136 for the declaration at position i
ReportOf(i) ==
    LET nm == pkg.decls[i].name
    IN  IF ~Declares(pkg.decls[i]) \/ decl[nm] # i THEN << >>
        ELSE IF /\ pkg.decls[i].kind = "func"
                /\ nm \in used
                /\ nm \notin funcUsedOutsideBody
                /\ nm \in funcSelfReferential
        THEN <<[pos |-> i, name |-> nm, typ |-> onlySelfReferential]>>
        ELSE IF nm \notin used
        THEN <<[pos |-> i, name |-> nm, typ |-> unused]>>
        ELSE << >>

\* lines 125-138: the reports, sorted by position
RECURSIVE ReportsUpTo(_)
ReportsUpTo(i) == IF i = 0 THEN << >> ELSE ReportsUpTo(i - 1) \o ReportOf(i)

SetMaps(w) ==
    /\ used' = w.used
    /\ funcSelfReferential' = w.funcSelfReferential
    /\ funcUsedOutsideBody' = w.funcUsedOutsideBody

Maps ==
    [used |-> used, funcSelfReferential |-> funcSelfReferential,
     funcUsedOutsideBody |-> funcUsedOutsideBody]

\* doPackage, lines 70-105
DoPackageDeclare ==
    /\ pc = "declare"
    /\ decl' = DeclMap(pkg.decls)
    /\ pc' = "mark"
    /\ UNCHANGED <<pkg, walked, used, funcSelfReferential, funcUsedOutsideBody,
                   reports, reader>>

\* doPackage, lines 106-119
DoPackageMark ==
    /\ pc = "mark"
    /\ used' = DefaultUsed(pkg.name, decl)
    /\ pc' = "walk"
    /\ UNCHANGED <<pkg, walked, decl, funcSelfReferential, funcUsedOutsideBody,
                   reports, reader>>

\* the next top-level declaration of the walk of lines 120-123
Walking(kind) ==
    /\ pc = "walk"
    /\ walked < Len(pkg.decls)
    /\ pkg.decls[walked + 1].kind = kind
    /\ walked' = walked + 1
    /\ UNCHANGED <<pkg, pc, decl, reports, reader>>

PackageVisitFuncDecl ==
    /\ Walking("func")
    /\ SetMaps(VisitFuncDecl(Maps, pkg.decls[walked + 1]))

PackageVisitValueSpec ==
    /\ Walking("var")
    /\ SetMaps(VisitSpec(Maps, pkg.decls[walked + 1]))

PackageVisitTypeSpec ==
    /\ Walking("type")
    /\ SetMaps(VisitSpec(Maps, pkg.decls[walked + 1]))

\* doPackage, lines 124-148
DoPackageReport ==
    /\ pc = "walk"
    /\ walked = Len(pkg.decls)
    /\ reports' = ReportsUpTo(Len(pkg.decls))
    /\ pc' = "done"
    /\ UNCHANGED <<pkg, walked, decl, used, funcSelfReferential,
                   funcUsedOutsideBody, reader>>

doPackage ==
    \/ DoPackageDeclare
    \/ DoPackageMark
    \/ PackageVisitFuncDecl
    \/ PackageVisitValueSpec
    \/ PackageVisitTypeSpec
    \/ DoPackageReport

\* the declarations the packages are made of
Decls ==
    {FuncDecl(FALSE, nm, << >>, <<Ident(nm)>>) :
        nm \in {NameF, NameFib, NameMain, NameInit, NameBlank}}
    \cup {FuncDecl(FALSE, nm, << >>, << >>) : nm \in {NameF, NameFib, NameMain}}
    \cup { FuncDecl(FALSE, NameF, <<NameF>>, << >>),
           FuncDecl(FALSE, NameF, << >>, <<LocalVar(<<NameF>>)>>),
           FuncDecl(FALSE, NameF, << >>, <<LocalType(<<NameF>>)>>),
           FuncDecl(FALSE, NameG, << >>, <<Ident(NameF)>>),
           FuncDecl(TRUE, NameF, << >>, <<Ident(NameF)>>),
           FuncDecl(TRUE, NameG, << >>, <<Ident(NameF)>>),
           ValueSpec(NameV, <<NameF>>),
           ValueSpec(NameBlank, <<NameF>>),
           TypeSpec(NameT, <<NameF>>),
           TypeSpec(NameT, << >>) }

Packages ==
    {[name |-> nm, decls |-> ds] :
        nm \in {NameMain, NameLib},
        ds \in UNION {[1..n -> Decls] : n \in 0..MaxDecls}}

InitPkg ==
    /\ pkg \in Packages
    /\ pc = "declare"
    /\ walked = 0
    /\ decl = << >>
    /\ used = {}
    /\ funcSelfReferential = {}
    /\ funcUsedOutsideBody = {}
    /\ reports = << >>
    /\ input = << >>
    /\ stream = << >>
    /\ NewReader

NextPkg == doPackage

SpecPkg == InitPkg /\ [][NextPkg]_vars

(***************************************************************************)
(* What the claims speak of, read off the log and the input.               *)
(***************************************************************************)
Calls == 1..Len(hist)

\* call k returned a record
Ok(k) == hist[k].err = Nil /\ ~hist[k].panicked

\* where record k of the input starts in the stream
StartOf(k) == Len(EncodeAll(SubSeq(input, 1, k - 1)))

\* call k consumed record k of the input, the whole of it and nothing else
Decoded(k) ==
    /\ k <= Len(input)
    /\ hist[k].start = StartOf(k)
    /\ hist[k].end = StartOf(k + 1)

\* the opcode bytes call k found, when the stream had two bytes left
OpcodeAt(k) == stream[hist[k].start + 1] + 256 * stream[hist[k].start + 2]

IsName(r) == r.kind = "name"
IsFileName(r) == r.kind = "name" /\ r.typ = D_FILE
IsHistory(r) == r.kind = "instr" /\ r.op = AHISTORY
IsInstr(r) == r.kind = "instr" /\ r.op # AHISTORY

\* the name most recently declared for handle h before record k, else ""
DeclaredName(k, h) ==
    LET ds == {j \in 1..(k - 1) : IsName(input[j]) /\ input[j].sym = h}
    IN  IF ds = {} THEN << >>
        ELSE input[CHOOSE j \in ds : \A i \in ds : i <= j].name

\* the last history record before record k, else 0
HistoryBefore(k) ==
    LET hs == {j \in 1..(k - 1) : IsHistory(input[j])}
    IN  IF hs = {} THEN 0 ELSE CHOOSE j \in hs : \A i \in hs : i <= j

DropFirst(r) == Tail(r.name)

\* the names, less their first character, of the file-marker declarations
\* between the last history record before record k and record k
MapDropFirst(rs) == [i \in 1..Len(rs) |-> DropFirst(rs[i])]

FragmentsBefore(k) ==
    MapDropFirst(SelectSeq(SubSeq(input, HistoryBefore(k) + 1, k - 1), IsFileName))

(***************************************************************************)
(* C1: for every opcode op with op <= AXXX or op >= ALAST the call returns *)
(* the opcode-out-of-range error carrying op and no record, and has        *)
(* consumed exactly the two opcode bytes: the next call starts at the byte *)
(* right after them.                                                       *)
(***************************************************************************)
C1_OutOfRange ==
    \A k \in Calls :
        (hist[k].start + 2 <= Len(stream)
         /\ (OpcodeAt(k) <= AXXX \/ OpcodeAt(k) >= ALAST))
        => /\ hist[k].err = [kind |-> "errOpOutOfRange", op |-> OpcodeAt(k)]
           /\ hist[k].p = ZeroProg
           /\ ~hist[k].panicked
           /\ hist[k].end = hist[k].start + 2
           /\ k < Len(hist) => hist[k + 1].start = hist[k].start + 2
           /\ k = Len(hist) => pos = hist[k].start + 2

\* both sentinels were rejected and a record was decoded right after one
C1_Witness ==
    /\ Len(hist) = 3
    /\ hist[1].err = [kind |-> "errOpOutOfRange", op |-> AXXX]
    /\ hist[2].err = [kind |-> "errOpOutOfRange", op |-> ALAST]
    /\ Ok(3)
    /\ hist[3].start = 4
    /\ hist[3].p.Op = AADDL

(***************************************************************************)
(* C2: the symbol name of an operand whose symbol flag is set (and the     *)
(* type-symbol name when the go-type flag is set) is the name of the most  *)
(* recent declaration of that handle before the instruction record, the    *)
(* empty name when there is none; a later declaration of the handle does   *)
(* not change the records already returned.                                *)
(***************************************************************************)
OperandNames(k, a, abs) ==
    /\ HasFlag(abs.tag, T_SYM) => a.Sym = DeclaredName(k, abs.sym)
    /\ HasFlag(abs.tag, T_GOTYPE) => a.GoType = DeclaredName(k, abs.gotype)

C2_SymbolAtUse ==
    \A k \in Calls :
        (Ok(k) /\ Decoded(k) /\ input[k].kind = "instr")
        => /\ OperandNames(k, hist[k].p.From, input[k].from)
           /\ OperandNames(k, hist[k].p.To, input[k].to)

\* handle 1 was declared "x", used, then declared again as "y": the record
\* returned keeps "x", and its undeclared handle 2 resolved to ""
C2_Witness ==
    /\ Len(hist) = 3
    /\ Ok(1) /\ Ok(2) /\ Ok(3)
    /\ hist[1].p.Name = NameX
    /\ hist[2].p.Op = AADDL
    /\ hist[2].p.From.Sym = NameX
    /\ hist[2].p.From.GoType = << >>
    /\ hist[3].p.Name = NameY
    /\ syms[1] = NameY

(***************************************************************************)
(* C3: a history record whose to-operand offset is not -1 applies          *)
(* enter(file name, line) when file-marker declarations immediately        *)
(* precede it, pushing a frame for the assembled file name, and exit(line) *)
(* only when none does.                                                    *)
(***************************************************************************)
LocalHistory(k) ==
    /\ Ok(k) /\ Decoded(k) /\ IsHistory(input[k])
    /\ hist[k].p.To.Offset # MinusOne64

C3_EnterAfterFileMarkers ==
    \A k \in Calls :
        LocalHistory(k)
        => IF k > 1 /\ IsFileName(input[k - 1])
           THEN /\ hist[k].fsetOp = "enter"
                /\ k = Len(hist) =>
                       /\ fset # << >>
                       /\ fset[Len(fset)].start = hist[k].p.Line
           ELSE hist[k].fsetOp = "exit"

(***************************************************************************)
(* C4: a history record at line L whose to-operand offset is -1 maps L to  *)
(* the path joined from the pending fragments in the imports mapping,      *)
(* leaves every other imports entry as it was, and applies neither enter   *)
(* nor exit: the frame stack is unchanged.                                 *)
(***************************************************************************)
ImportReturned ==
    /\ hist' # hist
    /\ Last'.err = Nil
    /\ Last'.op = AHISTORY
    /\ Last'.p.To.Offset = MinusOne64

C4_ImportStep ==
    ImportReturned
    => /\ DOMAIN imports' = DOMAIN imports \cup {Last'.p.Line}
       /\ imports'[Last'.p.Line] = Join(fnamebuf)
       /\ \A l \in DOMAIN imports : l # Last'.p.Line => imports'[l] = imports[l]
       /\ fset' = fset
       /\ Last'.fsetOp = "import"

C4_Import == [][C4_ImportStep]_vars

\* two imports, at lines 5 and 8, the first with the path "a"
C4_Witness ==
    /\ Len(hist) = 3
    /\ Ok(3)
    /\ hist[3].fsetOp = "import"
    /\ DOMAIN imports = {5, 8}
    /\ imports[5] = <<97>>
    /\ imports[8] = << >>
    /\ fset = << >>

(***************************************************************************)
(* C5: when an instruction or history record is cut short, the I/O error   *)
(* names the first field whose read failed and its cause is the error that *)
(* the read of that same field returned, never nil.                        *)
(***************************************************************************)
FirstFailure(e) ==
    IF e.lineErr # Nil THEN [When |-> "line number", Err |-> e.lineErr]
    ELSE IF e.fromErr # Nil THEN [When |-> "from address", Err |-> e.fromErr]
    ELSE [When |-> "to address", Err |-> e.toErr]

C5_CauseOfFailingField ==
    \A k \in Calls :
        hist[k].err.kind = "errIO"
        /\ hist[k].op \notin {ANAME, ASIGNAME}
        => /\ hist[k].err.When = FirstFailure(hist[k]).When
           /\ hist[k].err.Err = FirstFailure(hist[k]).Err
           /\ hist[k].err.Err # Nil

(***************************************************************************)
(* C6: in ReadAddr a read failure at any step aborts the decoding there:   *)
(* no later read obtains a byte of the stream, and the error returned is   *)
(* that of the first failing read, not that of a later one.                *)
(***************************************************************************)
Failed(rs) == {i \in 1..Len(rs) : rs[i].err # Nil}

FirstFailed(rs) == CHOOSE i \in Failed(rs) : \A j \in Failed(rs) : i <= j

C6_FirstErrorAborts ==
    \A k \in Calls :
        Failed(hist[k].fromReads) # {}
        => /\ \A i \in Failed(hist[k].fromReads) :
                  i > FirstFailed(hist[k].fromReads) => hist[k].fromReads[i].n = 0
           /\ hist[k].err = hist[k].fromReads[FirstFailed(hist[k].fromReads)].err

(***************************************************************************)
(* C7: every call of ReadProg completes by returning a record, the end of  *)
(* the stream or an error, a file-marker declaration of the empty name     *)
(* included: no call ends abnormally.                                      *)
(***************************************************************************)
C7_AlwaysReturns == \A k \in Calls : ~hist[k].panicked

(***************************************************************************)
(* C8: calls never read a byte twice, every call that returns a record has *)
(* consumed a whole record (at least the five bytes of the shortest one),  *)
(* so a finite stream yields finitely many records, and a call made with   *)
(* the stream exhausted returns the end of the stream and no record, as    *)
(* does every call after it.                                               *)
(***************************************************************************)
MinRecord == 2 + 1 + 1 + 1

C8_Progress ==
    /\ pos = IF hist = << >> THEN 0 ELSE Last.end
    /\ Cardinality({k \in Calls : Ok(k)}) * MinRecord <= Len(stream)
    /\ \A k \in Calls :
        /\ hist[k].start = IF k = 1 THEN 0 ELSE hist[k - 1].end
        /\ hist[k].start <= hist[k].end
        /\ hist[k].end <= Len(stream)
        /\ Ok(k) => /\ Decoded(k)
                    /\ hist[k].end >= hist[k].start + MinRecord
        /\ hist[k].start = Len(stream)
           => /\ hist[k].err = EOF
              /\ hist[k].p = ZeroProg
              /\ ~hist[k].panicked
              /\ hist[k].end = hist[k].start

\* two records, then the end of the stream twice
C8_Witness ==
    /\ Len(hist) = 4
    /\ Ok(1) /\ Ok(2)
    /\ hist[2].end = Len(stream)
    /\ hist[3].err = EOF
    /\ hist[4].err = EOF
    /\ pos = Len(stream)

(***************************************************************************)
(* C9 as stated: after every history record the pending fragments are      *)
(* empty, and the path assembled for it is the in-order join with the      *)
(* separator of exactly the names, first character dropped, of the         *)
(* file-marker declarations since the previous history record.             *)
(***************************************************************************)
HistoryDone(k) == Ok(k) /\ Decoded(k) /\ IsHistory(input[k])

C9_PlainJoin ==
    \A k \in Calls :
        HistoryDone(k)
        => /\ hist[k].path = JoinSlash(FragmentsBefore(k))
           /\ k = Len(hist) => fnamebuf = << >>

(***************************************************************************)
(* C9 as amended: the pending fragments are always the names, first        *)
(* character dropped, of the file-marker declarations since the last       *)
(* history record (none right after one), and the path assembled for a     *)
(* history record is filepath.Join of them: joined in order from the first *)
(* non-empty one on and then cleaned, which is the plain in-order join     *)
(* when every fragment is an ordinary non-empty component.                 *)
(***************************************************************************)
PlainFragment(f) ==
    /\ f # << >>
    /\ f # Dot
    /\ f # DotDot
    /\ \A i \in 1..Len(f) : f[i] # Slash

AllPlain(fs) == \A i \in 1..Len(fs) : PlainFragment(fs[i])

C9_DrainedJoin ==
    /\ (\A k \in Calls : Ok(k) /\ Decoded(k))
       => fnamebuf = FragmentsBefore(Len(hist) + 1)
    /\ \A k \in Calls :
        HistoryDone(k)
        => /\ hist[k].path = Join(FragmentsBefore(k))
           /\ AllPlain(FragmentsBefore(k))
              => hist[k].path = JoinSlash(FragmentsBefore(k))
           /\ k = Len(hist) => fnamebuf = << >>

\* "a" and "b" were pushed and a history record assembled "a/b"
C9_Witness ==
    /\ Len(hist) = 3
    /\ HistoryDone(3)
    /\ hist[3].path = <<97, 47, 98>>
    /\ fnamebuf = << >>

(***************************************************************************)
(* C10 as stated: a file-marker declaration appends its name less the      *)
(* first character to the pending fragments and leaves the symbol table    *)
(* unchanged: its handle resolves afterwards as it did before.             *)
(***************************************************************************)
FileDone(k) == k = Len(hist) /\ Ok(k) /\ Decoded(k) /\ IsFileName(input[k])

C10_TableUnchanged ==
    \A k \in Calls :
        FileDone(k)
        => /\ fnamebuf = Append(FragmentsBefore(k), DropFirst(input[k]))
           /\ syms[input[k].sym] = DeclaredName(k, input[k].sym)

(***************************************************************************)
(* C10 as amended: a file-marker declaration appends its name less the     *)
(* first character to the pending fragments and, as every name             *)
(* declaration does, registers its full name at its handle: afterwards the *)
(* handle resolves to that name, and every other handle as before.         *)
(***************************************************************************)
C10_FileMarker ==
    \A k \in Calls :
        FileDone(k)
        => /\ fnamebuf = Append(FragmentsBefore(k), DropFirst(input[k]))
           /\ syms[input[k].sym] = input[k].name
           /\ \A h \in Handles \ {input[k].sym} : syms[h] = DeclaredName(k, h)

\* "<a" at handle 1 then "<b" at handle 2
C10_Witness ==
    /\ Len(hist) = 2
    /\ FileDone(2)
    /\ fnamebuf = <<<<97>>, <<98>>>>
    /\ syms[1] = NameFileA
    /\ syms[2] = NameFileB

(***************************************************************************)
(* C11: a successfully decoded record that is not a history record asks    *)
(* the file set for a position exactly when its line is nonzero, and the   *)
(* position it carries is the answer of the file set as the preceding      *)
(* history records left it; a history record and a record with line 0      *)
(* carry no position; no later call changes what an earlier one returned.  *)
(***************************************************************************)
RecordReturned ==
    /\ hist' # hist
    /\ Last'.err = Nil
    /\ ~Last'.panicked

C11_Step ==
    RecordReturned
    => /\ SubSeq(hist', 1, Len(hist)) = hist
       /\ IF Last'.op \in {AHISTORY, ANAME, ASIGNAME}
          THEN /\ ~Last'.resolved
               /\ Last'.p.Pos = NoPos
          ELSE /\ Last'.resolved = (Last'.p.Line # 0)
               /\ Last'.p.Pos = (IF Last'.p.Line # 0
                                 THEN FileSetPosition(fset, Last'.p.Line)
                                 ELSE NoPos)
               /\ fset' = fset

C11_PositionAtDecode == [][C11_Step]_vars

\* a record with a line was returned after a history record, and a record
\* with line 0 was returned
C11_Witness ==
    /\ \E j, k \in Calls :
        /\ j < k
        /\ Ok(j) /\ hist[j].op = AHISTORY
        /\ Ok(k) /\ hist[k].op = AADDL /\ hist[k].resolved
    /\ \E k \in Calls : Ok(k) /\ hist[k].op = AADDL /\ ~hist[k].resolved

(***************************************************************************)
(* C12: a ReadAddr call that succeeds has read the flag byte and then      *)
(* exactly the fields its bits enable, in the order index, scale, offset   *)
(* (8 bytes with the 64-bit flag, else 4), symbol handle, float constant   *)
(* (8) or else string constant (NSNAME), type byte, go-type symbol handle, *)
(* each whole and from where the one before ended, and nothing else; the   *)
(* fields so read hold the bytes of the stream, and every field whose flag *)
(* is unset has the default of construction.                               *)
(***************************************************************************)
Field(name, n) == [field |-> name, n |-> n]

Layout(tag) ==
    <<Field("flag", 1)>>
    \o (IF HasFlag(tag, T_INDEX)
        THEN <<Field("index", 1), Field("scale", 1)>> ELSE << >>)
    \o (IF HasFlag(tag, T_OFFSET)
        THEN <<Field("offset", IF HasFlag(tag, T_64) THEN 8 ELSE 4)>> ELSE << >>)
    \o (IF HasFlag(tag, T_SYM) THEN <<Field("symbol", 1)>> ELSE << >>)
    \o (IF HasFlag(tag, T_FCONST) THEN <<Field("float constant", 8)>>
        ELSE IF HasFlag(tag, T_SCONST) THEN <<Field("string constant", NSNAME)>>
        ELSE << >>)
    \o (IF HasFlag(tag, T_TYPE) THEN <<Field("type", 1)>> ELSE << >>)
    \o (IF HasFlag(tag, T_GOTYPE) THEN <<Field("go-type symbol", 1)>> ELSE << >>)

RECURSIVE Width(_)
Width(fs) == IF fs = << >> THEN 0 ELSE Head(fs).n + Width(Tail(fs))

\* the reads of a call, less their errors
ReadsOf(k) ==
    [i \in 1..Len(hist[k].fromReads) |->
        Field(hist[k].fromReads[i].field, hist[k].fromReads[i].n)]

\* the first byte of the stream call k looked at
TagAt(k) == stream[hist[k].start + 1]

\* the bytes of the stream that the i-th field of the layout of call k covers
BytesOf(k, i) ==
    SubSeq(stream,
           hist[k].start + Width(SubSeq(Layout(TagAt(k)), 1, i - 1)) + 1,
           hist[k].start + Width(SubSeq(Layout(TagAt(k)), 1, i)))

\* the bytes of the field called name, << >> when the layout has none
FieldBytes(k, name) ==
    LET is == {i \in 1..Len(Layout(TagAt(k))) : Layout(TagAt(k))[i].field = name}
    IN  IF is = {} THEN << >> ELSE BytesOf(k, CHOOSE i \in is : TRUE)

AddrOk(k) == hist[k].err = Nil /\ hist[k].start < Len(stream)

C12_FieldLayout ==
    \A k \in Calls :
        AddrOk(k)
        => LET a == hist[k].p.From
               tag == TagAt(k)
           IN  /\ hist[k].op = tag
               /\ ReadsOf(k) = Layout(tag)
               /\ hist[k].end = hist[k].start + Width(Layout(tag))
               /\ IF HasFlag(tag, T_INDEX)
                  THEN /\ <<a.Index>> = FieldBytes(k, "index")
                       /\ <<a.Scale>> = FieldBytes(k, "scale")
                  ELSE a.Index = D_NONE /\ a.Scale = 0
               /\ ~HasFlag(tag, T_OFFSET) => a.Offset = Zero64
               /\ IF HasFlag(tag, T_SYM)
                  THEN a.Sym = syms[FieldBytes(k, "symbol")[1]]
                  ELSE a.Sym = << >>
               /\ IF HasFlag(tag, T_GOTYPE)
                  THEN a.GoType = syms[FieldBytes(k, "go-type symbol")[1]]
                  ELSE a.GoType = << >>
               /\ (~HasFlag(tag, T_TYPE) /\ ~HasFlag(tag, T_FCONST)
                      /\ ~HasFlag(tag, T_SCONST)) => a.Type = D_NONE

\* an operand with every flag set was decoded
C12_Witness ==
    /\ hist # << >>
    /\ AddrOk(1)
    /\ hist[1].op = T_TYPE + T_INDEX + T_OFFSET + T_FCONST + T_SYM + T_SCONST
                        + T_64 + T_GOTYPE
    /\ hist[1].end = Len(stream)

(***************************************************************************)
(* C13: the type of a successfully decoded operand is the type byte when   *)
(* the type flag is set, whatever the constant flags; else D_FCONST when   *)
(* the float-constant flag is set; else D_SCONST when the string-constant  *)
(* flag is set; else D_NONE.  With both constant flags set the eight bytes *)
(* of the float are read and the string payload stays zero.                *)
(***************************************************************************)
C13_TypeTag ==
    \A k \in Calls :
        AddrOk(k)
        => LET a == hist[k].p.From
               tag == TagAt(k)
           IN  /\ a.Type = IF HasFlag(tag, T_TYPE) THEN FieldBytes(k, "type")[1]
                            ELSE IF HasFlag(tag, T_FCONST) THEN D_FCONST
                            ELSE IF HasFlag(tag, T_SCONST) THEN D_SCONST
                            ELSE D_NONE
               /\ IF HasFlag(tag, T_FCONST)
                  THEN /\ a.FloatIEEE = FieldBytes(k, "float constant")
                       /\ Len(a.FloatIEEE) = 8
                       /\ a.StringVal = ZeroStr
                       /\ \A i \in 1..Len(hist[k].fromReads) :
                              hist[k].fromReads[i].field # "string constant"
                  ELSE /\ a.FloatIEEE = Zero64
                       /\ a.StringVal = IF HasFlag(tag, T_SCONST)
                                        THEN FieldBytes(k, "string constant")
                                        ELSE ZeroStr

\* both constant flags and the type flag set: the type byte wins
C13_Witness ==
    /\ hist # << >>
    /\ AddrOk(1)
    /\ hist[1].op = T_FCONST + T_SCONST + T_TYPE
    /\ hist[1].p.From.Type = D_EXTERN
    /\ hist[1].p.From.FloatIEEE # Zero64

(***************************************************************************)
(* C14: with the offset flag set the offset of a successfully decoded      *)
(* operand is the eight offset bytes, little-endian, as a signed 64-bit    *)
(* integer when the 64-bit flag is set, and else the four offset bytes,    *)
(* little-endian, sign-extended from 32 bits: FF FF FF FF gives -1,        *)
(* 00 00 00 80 gives -2147483648, 01 00 00 00 00 00 00 00 with the 64-bit  *)
(* flag gives 1.  So the import test of a history record, offset = -1,     *)
(* holds exactly when the offset field is there and all its bits are ones. *)
(***************************************************************************)
\* the little-endian value of four bytes as a signed 32-bit integer
Int32LE(w) ==
    w[1] + 256 * w[2] + 65536 * w[3]
    + 16777216 * (IF w[4] >= 128 THEN w[4] - 256 ELSE w[4])

\* a 64-bit word whose value a signed 32-bit integer can hold
FitsInt32(w) ==
    SubSeq(w, 5, 8) = (IF w[4] >= 128 THEN <<255, 255, 255, 255>> ELSE Zero32)

\* the value of such a word as a signed 64-bit integer
Int64LE(w) == Int32LE(SubSeq(w, 1, 4))

MinInt32 == -2147483647 - 1

C14_Offset ==
    \A k \in Calls :
        AddrOk(k)
        => LET a == hist[k].p.From
               tag == TagAt(k)
               bytes == FieldBytes(k, "offset")
           IN  /\ HasFlag(tag, T_OFFSET)
                  => /\ Len(bytes) = IF HasFlag(tag, T_64) THEN 8 ELSE 4
                     /\ Len(a.Offset) = 8
                     /\ FitsInt32(a.Offset)
                     /\ IF HasFlag(tag, T_64)
                        THEN a.Offset = bytes
                        ELSE Int64LE(a.Offset) = Int32LE(bytes)
                     /\ bytes = <<255, 255, 255, 255>> => Int64LE(a.Offset) = -1
                     /\ bytes = <<0, 0, 0, 128>> => Int64LE(a.Offset) = MinInt32
                     /\ bytes = <<1, 0, 0, 0, 0, 0, 0, 0>> => Int64LE(a.Offset) = 1
               /\ IsImport([ZeroProg EXCEPT !.To = a])
                  <=> /\ HasFlag(tag, T_OFFSET)
                      /\ \A i \in 1..Len(bytes) : bytes[i] = 255

\* the four bytes FF FF FF FF were decoded, to -1
C14_Witness ==
    /\ hist # << >>
    /\ AddrOk(1)
    /\ hist[1].op = T_OFFSET
    /\ FieldBytes(1, "offset") = <<255, 255, 255, 255>>
    /\ hist[1].p.From.Offset = MinusOne64

(***************************************************************************)
(* C15: a call of ReadProg that returns an error or the end of the stream  *)
(* leaves the symbol table, the pending fragments, the file set and the    *)
(* imports as they were; it only moves the position in the stream.         *)
(***************************************************************************)
ErrorReturned ==
    /\ hist' # hist
    /\ Last'.err # Nil
    /\ ~Last'.panicked

C15_Step ==
    ErrorReturned
    => /\ syms' = syms
       /\ fnamebuf' = fnamebuf
       /\ fset' = fset
       /\ imports' = imports
       /\ fname' = fname
       /\ stream' = stream
       /\ Last'.p = ZeroProg

C15_ErrorKeepsState == [][C15_Step]_vars

\* a declaration and a file marker were decoded and then a record cut
\* short was refused
C15_Witness ==
    /\ Len(hist) = 3
    /\ Ok(1) /\ Ok(2)
    /\ hist[3].err \notin {Nil, EOF}
    /\ hist[3].end > hist[3].start
    /\ hist[3].op = AHISTORY
    /\ fnamebuf # << >>
    /\ syms # EmptySyms

(***************************************************************************)
(* C16: an operand cut short is never reported as a success.  When a read  *)
(* of a field of an operand fails, ReadAddr returns an error, although     *)
(* later reads assign the error variable again; and ReadProg then returns  *)
(* an error and no record, and leaves the pending fragments, the file set  *)
(* and the imports as they were.                                           *)
(***************************************************************************)
OperandCut(e) == Failed(e.fromReads) # {} \/ Failed(e.toReads) # {}

C16_Step ==
    (hist' # hist /\ OperandCut(Last'))
    => /\ Failed(Last'.fromReads) # {} => Last'.fromErr # Nil
       /\ Failed(Last'.toReads) # {} => Last'.toErr # Nil
       /\ Last'.err # Nil
       /\ Last'.p = ZeroProg
       /\ fnamebuf' = fnamebuf
       /\ fset' = fset
       /\ imports' = imports

C16_CutOperandFails == [][C16_Step]_vars

\* the offset of the to operand of a history record was cut short after the
\* file marker was decoded: a read failed, a later read (the symbol handle)
\* assigned the error again, and the record was refused
C16_Witness ==
    /\ Len(hist) = 2
    /\ Ok(1)
    /\ hist[2].op = AHISTORY
    /\ Failed(hist[2].fromReads) = {}
    /\ Cardinality(Failed(hist[2].toReads)) >= 2
    /\ hist[2].toReads[FirstFailed(hist[2].toReads)].err = ErrUnexpectedEOF
    /\ hist[2].toErr = EOF
    /\ hist[2].err # Nil
    /\ fnamebuf # << >>

(***************************************************************************)
(* C17: doPackage reports no name that is marked used by default: init and *)
(* _ in every package, main in package main, every exported top-level name *)
(* in a package other than main have no report of either kind, whatever    *)
(* identifiers occur in the package.                                       *)
(***************************************************************************)
Done == pc = "done"

Reported(nm, typ) ==
    \E i \in 1..Len(reports) : reports[i].name = nm /\ reports[i].typ = typ

UsedByDefault(nm) ==
    \/ nm \in {NameInit, NameBlank}
    \/ pkg.name = NameMain /\ nm = NameMain
    \/ pkg.name # NameMain /\ IsExported(nm)

C17_DefaultsNeverReported ==
    Done => \A i \in 1..Len(reports) : ~UsedByDefault(reports[i].name)

(***************************************************************************)
(* C18: a top-level function f without receiver is reported as only used   *)
(* self-referentially exactly when its name occurs as an identifier in its *)
(* own signature or body and nowhere else in the walked code: an           *)
(* occurrence in its body, a local var or type declaration included, is    *)
(* not a use outside the body, and an occurrence in another function or in *)
(* a method is not self-referential.                                       *)
(***************************************************************************)
Occurs(nm, ids) == \E i \in 1..Len(ids) : ids[i] = nm

\* the identifiers of a declaration that the walk looks at
WalkedIdents(d) == d.idents \o AllIdents(d.body)

\* the names of the top-level functions without receiver, each declared once
TopLevelFuncs ==
    {nm \in DOMAIN decl :
        /\ pkg.decls[decl[nm]].kind = "func"
        /\ \A i \in DeclaredAt(pkg.decls) : pkg.decls[i].name = nm => i = decl[nm]}

OccursInside(nm) == Occurs(nm, WalkedIdents(pkg.decls[decl[nm]]))

OccursElsewhere(nm) ==
    \E j \in 1..Len(pkg.decls) :
        j # decl[nm] /\ Occurs(nm, WalkedIdents(pkg.decls[j]))

C18_SelfReferentialReport ==
    Done => \A nm \in TopLevelFuncs :
                Reported(nm, onlySelfReferential)
                <=> (OccursInside(nm) /\ ~OccursElsewhere(nm))
====
